---- MODULE Spec2Model ----
(***************************************************************************)
(* S3 lifecycle housekeeping: chart/scripts/s3_lifecycle_manager.py.       *)
(* The model covers the validator, the merger, the comparator and the      *)
(* apply/verify workflow of S3LifecycleManager.                            *)
(***************************************************************************)
EXTENDS Integers, Sequences, FiniteSets, TLC

(***************************************************************************)
(* Bounds of the model.                                                    *)
(***************************************************************************)
\* longest Rules sequence of a local or remote policy
MaxRules == 2

\* the invocations of the program run one after the other on a bucket
MaxRuns == 2

(***************************************************************************)
(* JSON documents as Python holds them after json.load / boto3 parsing.    *)
(* Every value is a record [k, s, v]: k the Python type, s the scalar      *)
(* text, v the elements (list) or the key/value pairs in insertion order   *)
(* (dict).                                                                 *)
(***************************************************************************)
JNull == [k |-> "null", s |-> "", v |-> <<>>]

JStr(x) == [k |-> "str", s |-> x, v |-> <<>>]

JNum(x) == [k |-> "num", s |-> x, v |-> <<>>]

JList(elems) == [k |-> "list", s |-> "", v |-> elems]

JDict(pairs) == [k |-> "dict", s |-> "", v |-> pairs]

P(key, val) == [key |-> key, val |-> val]

\* an exception leaving a function, in place of its return value
Raised(exc) == [k |-> "raised", s |-> exc, v |-> <<>>]

\* a local variable of the workflow that is not bound yet
Unset == [k |-> "unset", s |-> "", v |-> <<>>]

\* Python's bool(x), as used by `if not config` and `if remote_config`
Truthy(x) ==
  CASE x.k = "null" -> FALSE
    [] x.k = "str" -> x.s # ""
    [] x.k = "num" -> x.s # "0"
    [] x.k = "list" -> x.v # <<>>
    [] x.k = "dict" -> x.v # <<>>
    [] OTHER -> FALSE

\* key in d, for a dict d
HasKey(d, key) == \E i \in DOMAIN d.v : d.v[i].key = key

\* d[key], for a dict d that has the key
DictGet(d, key) == d.v[CHOOSE i \in DOMAIN d.v : d.v[i].key = key].val

\* d.get(key, default)
DictGetOr(d, key, default) == IF HasKey(d, key) THEN DictGet(d, key) ELSE default

\* d[key] = val on a copy of d: an existing key keeps its position, a new key goes last
DictSet(d, key, val) ==
  IF HasKey(d, key)
    THEN JDict([i \in DOMAIN d.v |-> IF d.v[i].key = key THEN P(key, val) ELSE d.v[i]])
    ELSE JDict(Append(d.v, P(key, val)))

\* the keys this model's documents use, in the lexicographic order sort_keys puts them in
KeyOrder ==
  << "Days", "Expiration", "ID", "NotRules", "ResponseMetadata", "Rules", "Status",
     "TransitionDefaultMinimumObjectSize" >>

KeyRank(key) == CHOOSE i \in DOMAIN KeyOrder : KeyOrder[i] = key

RECURSIVE InsertByKey(_, _)
InsertByKey(p, sorted) ==
  IF sorted = <<>> THEN <<p>>
  ELSE IF KeyRank(p.key) <= KeyRank(Head(sorted).key) THEN <<p>> \o sorted
  ELSE <<Head(sorted)>> \o InsertByKey(p, Tail(sorted))

RECURSIVE SortByKey(_)
SortByKey(pairs) ==
  IF pairs = <<>> THEN <<>> ELSE InsertByKey(Head(pairs), SortByKey(Tail(pairs)))

\* json.dumps(x, sort_keys=sort_keys, separators=(',', ':')) as a sequence of tokens
RECURSIVE json_dumps(_, _)
json_dumps(x, sort_keys) ==
  LET RECURSIVE elems(_)
      elems(q) ==
        IF q = <<>> THEN <<>>
        ELSE json_dumps(Head(q), sort_keys)
               \o (IF Len(q) > 1 THEN <<",">> ELSE <<>>) \o elems(Tail(q))
      RECURSIVE items(_)
      items(q) ==
        IF q = <<>> THEN <<>>
        ELSE <<"\"", Head(q).key, "\"", ":">> \o json_dumps(Head(q).val, sort_keys)
               \o (IF Len(q) > 1 THEN <<",">> ELSE <<>>) \o items(Tail(q))
  IN CASE x.k = "null" -> <<"null">>
       [] x.k = "str" -> <<"\"", x.s, "\"">>
       [] x.k = "num" -> <<x.s>>
       [] x.k = "list" -> <<"[">> \o elems(x.v) \o <<"]">>
       [] x.k = "dict" ->
            <<"{">> \o items(IF sort_keys THEN SortByKey(x.v) ELSE x.v) \o <<"}">>
       [] OTHER -> <<"?", x.k>>

(***************************************************************************)
(* validate_lifecycle_config: [ret, errors], ret one of "True", "False",   *)
(* or "raise" when a Python exception leaves the function; errors the      *)
(* logger.error diagnostics, each [msg, index] (index 0: not about a rule, *)
(* rule indexes are 1-based here, 0-based in the source).                  *)
(***************************************************************************)
Diag(msg, index) == [msg |-> msg, index |-> index]

Verdict(ret, errors) == [ret |-> ret, errors |-> errors]

\* the strings of the model that contain the substring 'Rules'
ContainsRules(text) == text = "Rules"

\* `'Rules' not in config` for a truthy config: "in", "notin" or "raise"
RulesIn(config) ==
  CASE config.k = "dict" -> IF HasKey(config, "Rules") THEN "in" ELSE "notin"
    [] config.k = "list" ->
         IF \E i \in DOMAIN config.v : config.v[i] = JStr("Rules") THEN "in" ELSE "notin"
    [] config.k = "str" -> IF ContainsRules(config.s) THEN "in" ELSE "notin"
    [] OTHER -> "raise"

\* RuleError without the check of lines 199-201: any Status value passes
RuleError_any_status(rule) ==
  IF rule.k # "dict" THEN "must be an object"
  ELSE IF ~HasKey(rule, "ID") THEN "missing required 'ID' field"
  ELSE IF ~HasKey(rule, "Status") THEN "missing required 'Status' field"
  ELSE "ok"

\* the first check of the loop body a rule fails, "ok" when it passes them all
RuleError(rule) ==
  IF rule.k # "dict" THEN "must be an object"
  ELSE IF ~HasKey(rule, "ID") THEN "missing required 'ID' field"
  ELSE IF ~HasKey(rule, "Status") THEN "missing required 'Status' field"
  ELSE IF DictGet(rule, "Status") \notin {JStr("Enabled"), JStr("Disabled")}
    THEN "has invalid Status"
  ELSE "ok"

\* the loop of lines 184-201 going on to the end and reporting the last failing rule
LastFailing(rules) ==
  CHOOSE j \in DOMAIN rules :
    /\ RuleError(rules[j]) # "ok"
    /\ \A h \in (j + 1)..Len(rules) : RuleError(rules[h]) = "ok"

\* the rule at which the loop of lines 184-201 returns: the first one that fails a check
FirstFailing(rules) ==
  CHOOSE j \in DOMAIN rules :
    /\ RuleError(rules[j]) # "ok"
    /\ \A h \in 1..(j - 1) : RuleError(rules[h]) = "ok"

validate_lifecycle_config(config) ==
  IF ~Truthy(config) THEN Verdict("True", <<>>)
  ELSE IF RulesIn(config) = "raise" THEN Verdict("raise", <<>>)
  ELSE IF RulesIn(config) = "notin"
    THEN Verdict("False", <<Diag("Lifecycle configuration must have 'Rules' array", 0)>>)
  ELSE IF config.k # "dict" THEN Verdict("raise", <<>>)
  ELSE LET rules == DictGet(config, "Rules")
       IN IF rules.k # "list"
            THEN Verdict("False", <<Diag("'Rules' must be an array", 0)>>)
          ELSE IF \E i \in DOMAIN rules.v : RuleError(rules.v[i]) # "ok"
            THEN LET i == FirstFailing(rules.v)
                 IN Verdict("False", <<Diag(RuleError(rules.v[i]), i)>>)
          ELSE Verdict("True", <<>>)

(***************************************************************************)
(* merge_lifecycle_configs                                                 *)
(***************************************************************************)
\* what `for x in value` yields: the elements of a list, the keys of a dict, the
\* characters of a string (all strings, so one stands for them); ok is FALSE when the
\* value is not iterable
Iterate(value) ==
  CASE value.k = "list" -> [ok |-> TRUE, items |-> value.v]
    [] value.k = "dict" ->
         [ok |-> TRUE, items |-> [i \in DOMAIN value.v |-> JStr(value.v[i].key)]]
    [] value.k = "str" ->
         [ok |-> TRUE, items |-> IF value.s = "" THEN <<>> ELSE <<JStr(value.s)>>]
    [] OTHER -> [ok |-> FALSE, items |-> <<>>]

\* rule['ID'] evaluates and the value can be a member of a set
HasHashableID(rule) ==
  /\ rule.k = "dict"
  /\ HasKey(rule, "ID")
  /\ DictGet(rule, "ID").k \in {"null", "str", "num"}

\* line 241 building an empty set: no ID counts as a local one
RuleIDs_none(rules) == {}

\* local_rule_ids = {rule['ID'] for rule in local_rules}
RuleIDs(rules) == {DictGet(rules[i], "ID") : i \in DOMAIN rules}

\* RemoteOnly with the test of line 249 inverted: the remote rules whose ID is a local one
RemoteOnly_shared(remote_rules, local_rule_ids) ==
  SelectSeq(remote_rules, LAMBDA r : DictGet(r, "ID") \in local_rule_ids)

\* RemoteOnly without the test of line 249: every remote rule is appended
RemoteOnly_all(remote_rules, local_rule_ids) == remote_rules

\* the loop over remote_rules: the remote rules whose ID is not a local one, in order
RECURSIVE RemoteOnly(_, _)
RemoteOnly(remote_rules, local_rule_ids) ==
  IF remote_rules = <<>> THEN <<>>
  ELSE IF DictGet(Head(remote_rules), "ID") \notin local_rule_ids
    THEN <<Head(remote_rules)>> \o RemoteOnly(Tail(remote_rules), local_rule_ids)
  ELSE RemoteOnly(Tail(remote_rules), local_rule_ids)

\* merge_lifecycle_configs starting from the remote rules: the local rules come last
merge_remote_first(local_config, remote_config) ==
  IF ~Truthy(remote_config) THEN local_config
  ELSE IF local_config.k # "dict" \/ remote_config.k # "dict" THEN Raised("AttributeError")
  ELSE LET local_rules == DictGetOr(local_config, "Rules", JList(<<>>))
           remote_rules == Iterate(DictGetOr(remote_config, "Rules", JList(<<>>)))
       IN IF local_rules.k # "list" THEN Raised("AttributeError")
          ELSE IF \E i \in DOMAIN local_rules.v : ~HasHashableID(local_rules.v[i])
            THEN Raised("KeyError")
          ELSE IF ~remote_rules.ok THEN Raised("TypeError")
          ELSE IF \E i \in DOMAIN remote_rules.items : ~HasHashableID(remote_rules.items[i])
            THEN Raised("KeyError")
          ELSE LET merged_rules ==
                     RemoteOnly(remote_rules.items, RuleIDs(local_rules.v)) \o local_rules.v
               IN DictSet(local_config, "Rules", JList(merged_rules))

\* merge_lifecycle_configs with line 257 copying remote_config as the template
merge_remote_template(local_config, remote_config) ==
  IF ~Truthy(remote_config) THEN local_config
  ELSE IF local_config.k # "dict" \/ remote_config.k # "dict" THEN Raised("AttributeError")
  ELSE LET local_rules == DictGetOr(local_config, "Rules", JList(<<>>))
           remote_rules == Iterate(DictGetOr(remote_config, "Rules", JList(<<>>)))
       IN IF local_rules.k # "list" THEN Raised("AttributeError")
          ELSE IF \E i \in DOMAIN local_rules.v : ~HasHashableID(local_rules.v[i])
            THEN Raised("KeyError")
          ELSE IF ~remote_rules.ok THEN Raised("TypeError")
          ELSE IF \E i \in DOMAIN remote_rules.items : ~HasHashableID(remote_rules.items[i])
            THEN Raised("KeyError")
          ELSE LET merged_rules ==
                     local_rules.v \o RemoteOnly(remote_rules.items, RuleIDs(local_rules.v))
               IN DictSet(remote_config, "Rules", JList(merged_rules))

\* merge_lifecycle_configs answering the remote configuration at line 230
merge_remote_when_empty(local_config, remote_config) ==
  IF ~Truthy(remote_config) THEN remote_config
  ELSE merge_remote_first(local_config, remote_config)

merge_lifecycle_configs(local_config, remote_config) ==
  IF ~Truthy(remote_config) THEN local_config
  ELSE IF local_config.k # "dict" \/ remote_config.k # "dict" THEN Raised("AttributeError")
  ELSE LET local_rules == DictGetOr(local_config, "Rules", JList(<<>>))
           remote_rules == Iterate(DictGetOr(remote_config, "Rules", JList(<<>>)))
       IN IF local_rules.k # "list" THEN Raised("AttributeError")
          ELSE IF \E i \in DOMAIN local_rules.v : ~HasHashableID(local_rules.v[i])
            THEN Raised("KeyError")
          ELSE IF ~remote_rules.ok THEN Raised("TypeError")
          ELSE IF \E i \in DOMAIN remote_rules.items : ~HasHashableID(remote_rules.items[i])
            THEN Raised("KeyError")
          ELSE LET merged_rules ==
                     local_rules.v \o RemoteOnly(remote_rules.items, RuleIDs(local_rules.v))
               IN DictSet(local_config, "Rules", JList(merged_rules))

(***************************************************************************)
(* _configs_equal                                                          *)
(***************************************************************************)
\* normalize_config with line 494 written as `if config is None`
normalize_config_none_only(config) ==
  IF config = JNull THEN <<"None">> ELSE json_dumps(config, TRUE)

\* normalize_config with line 496 calling json.dumps without sort_keys
normalize_config_unsorted(config) ==
  IF ~Truthy(config) THEN <<"None">> ELSE json_dumps(config, FALSE)

\* normalize_config: None for a falsy config, else the canonical JSON text
normalize_config(config) ==
  IF ~Truthy(config) THEN <<"None">> ELSE json_dumps(config, TRUE)

configs_equal(config1, config2) == normalize_config(config1) = normalize_config(config2)

(***************************************************************************)
(* The documents of the model.                                             *)
(***************************************************************************)
Rule(id, status, days) ==
  JDict(<< P("ID", JStr(id)), P("Status", JStr(status)),
           P("Expiration", JDict(<<P("Days", JNum(days))>>)) >>)

\* the rules a local file is written with
LocalRuleSet == {Rule("a", "Enabled", "30"), Rule("b", "Disabled", "7")}

\* the rules a bucket holds: a local rule as published, another rule under the same ID,
\* and a rule under an ID no local file uses
RemoteRuleSet ==
  {Rule("a", "Enabled", "30"), Rule("a", "Disabled", "90"), Rule("c", "Enabled", "365")}

SeqsUpTo(S, n) == UNION {[1..m -> S] : m \in 0..n}

\* the top-level fields a local file carries before its Rules field
LocalTops == {<<>>, <<P("TransitionDefaultMinimumObjectSize", JStr("all_storage_classes_128K"))>>}

\* the top-level fields a bucket's configuration carries before its Rules field
RemoteTops == {<<>>, <<P("TransitionDefaultMinimumObjectSize", JStr("varies_by_storage_class"))>>}

Policy(top, rules) == JDict(top \o <<P("Rules", JList(rules))>>)

\* documents validate_lifecycle_config accepts because they are falsy (line 170)
FalsyDocs == {JNull, JDict(<<>>), JList(<<>>), JStr(""), JNum("0")}

ValidDocs == {Policy(top, rules) : top \in LocalTops, rules \in SeqsUpTo(LocalRuleSet, MaxRules)}

\* parseable documents that are not well-formed policies
InvalidDocs ==
  { JDict(<<P("NotRules", JList(<<>>))>>),
    JDict(<<P("Rules", JStr("a"))>>),
    Policy(<<>>, <<JStr("a")>>),
    Policy(<<>>, <<JDict(<<P("Status", JStr("Enabled"))>>)>>),
    Policy(<<>>, <<JDict(<<P("ID", JStr("a"))>>)>>),
    Policy(<<>>, <<Rule("a", "Invalid", "30")>>),
    Policy(<<>>, <<Rule("a", "Enabled", "30"), JDict(<<P("ID", JStr("b"))>>)>>),
    Policy(<<>>, <<Rule("a", "Invalid", "30"), JDict(<<P("Status", JStr("Enabled"))>>)>>),
    JNum("5"), JStr("Rules"), JStr("a"), JList(<<JStr("Rules")>>), JList(<<JStr("a")>>) }

\* the local configuration file: absent, not JSON, or a JSON document
Files ==
  {[state |-> "missing", doc |-> Unset], [state |-> "malformed", doc |-> Unset]}
    \cup {[state |-> "ok", doc |-> d] : d \in FalsyDocs \cup ValidDocs \cup InvalidDocs}

\* what the bucket holds: no lifecycle configuration (JNull), or a configuration,
\* with or without a Rules field
Buckets ==
  {JNull, JDict(<<>>),
   JDict(<<P("TransitionDefaultMinimumObjectSize", JStr("varies_by_storage_class"))>>)}
    \cup {Policy(top, rules) : top \in RemoteTops, rules \in SeqsUpTo(RemoteRuleSet, MaxRules)}

(***************************************************************************)
(* The storage and file collaborators.                                     *)
(***************************************************************************)
\* what s3_client.get_bucket_lifecycle_configuration does for a bucket content
GetResponses(content) ==
  { IF content = JNull
      THEN [kind |-> "ClientError", code |-> "NoSuchLifecycleConfiguration", body |-> Unset]
      ELSE [kind |-> "response", code |-> "",
            body |-> JDict(<<P("ResponseMetadata", JDict(<<>>))>> \o content.v)],
    [kind |-> "ClientError", code |-> "AccessDenied", body |-> Unset],
    [kind |-> "Exception", code |-> "EndpointConnectionError", body |-> Unset] }

\* what s3_client.put_bucket_lifecycle_configuration does
PutOutcomes == {"ok", "ClientError", "Exception"}

RECURSIVE ReverseKeys(_)
\* the same document with the keys of every dict in the opposite insertion order
ReverseKeys(x) ==
  CASE x.k = "dict" ->
         JDict([i \in DOMAIN x.v |->
                  P(x.v[Len(x.v) + 1 - i].key, ReverseKeys(x.v[Len(x.v) + 1 - i].val))])
    [] x.k = "list" -> JList([i \in DOMAIN x.v |-> ReverseKeys(x.v[i])])
    [] OTHER -> x

\* what the bucket holds after a put the provider accepted: the configuration as sent,
\* the same with its keys in the provider's order, the configuration with the provider's
\* default for a field the request left out, or a rewritten rule list
Stored(config) ==
  { config,
    ReverseKeys(config),
    IF config.k = "dict" /\ ~HasKey(config, "TransitionDefaultMinimumObjectSize")
      THEN JDict(config.v \o
                   <<P("TransitionDefaultMinimumObjectSize", JStr("all_storage_classes_128K"))>>)
      ELSE config,
    IF config.k = "dict" /\ HasKey(config, "Rules") /\ DictGet(config, "Rules").k = "list"
      THEN DictSet(config, "Rules",
                   JList([i \in DOMAIN DictGet(config, "Rules").v |->
                            DictGet(config, "Rules").v[Len(DictGet(config, "Rules").v) + 1 - i]]))
      ELSE config }

\* get_current_lifecycle_config without lines 285-287: every ClientError is re-raised
get_current_no_special_case(resp) ==
  IF resp.kind = "response"
    THEN JDict(SelectSeq(resp.body.v, LAMBDA p : p.key # "ResponseMetadata"))
  ELSE Raised(resp.kind)

\* get_current_lifecycle_config given the client's response: the configuration without
\* ResponseMetadata, None for NoSuchLifecycleConfiguration, else the exception re-raised
get_current_lifecycle_config(resp) ==
  IF resp.kind = "response"
    THEN JDict(SelectSeq(resp.body.v, LAMBDA p : p.key # "ResponseMetadata"))
  ELSE IF resp.kind = "ClientError" /\ resp.code = "NoSuchLifecycleConfiguration" THEN JNull
  ELSE Raised(resp.kind)

\* apply_lifecycle_config catching ClientError alone and reporting success otherwise
apply_ignoring_exception(outcome) == outcome # "ClientError"

\* apply_lifecycle_config given what the put did: True, or False for any exception
apply_lifecycle_config(outcome) == outcome = "ok"

\* load_config_file without the validation of lines 339-340
load_without_validation(f) ==
  IF f.state = "missing" THEN Raised("FileNotFoundError")
  ELSE IF f.state = "malformed" THEN Raised("JSONDecodeError")
  ELSE f.doc

\* line 339: load_config_file calls the validator once the file is opened and parsed
validated_by_load(f) ==
  IF f.state = "ok" THEN validate_lifecycle_config(f.doc) ELSE Verdict("none", <<>>)

\* load_config_file: the document, or the exception it re-raises
load_config_file(f) ==
  IF f.state = "missing" THEN Raised("FileNotFoundError")
  ELSE IF f.state = "malformed" THEN Raised("JSONDecodeError")
  ELSE IF validate_lifecycle_config(f.doc).ret = "True" THEN f.doc
  ELSE IF validate_lifecycle_config(f.doc).ret = "False" THEN Raised("ValueError")
  ELSE Raised("TypeError")

(***************************************************************************)
(* apply_lifecycle_management, one invocation.                             *)
(***************************************************************************)
VARIABLES
  pc,              \* position in apply_lifecycle_management
  file,            \* the local configuration file
  bucket,          \* the lifecycle configuration the bucket holds
  local_config, remote_config, merged_config, updated_config, config_updated,
  calls,           \* the collaborator calls made so far, in order
  validation,      \* what validate_lifecycle_config returned and logged, once called
  history,         \* the call logs of the invocations that ended before this one
  other,           \* a second invocation running on the same bucket
  ret              \* what the invocation returned

vars ==
  << pc, file, bucket, local_config, remote_config, merged_config, updated_config,
     config_updated, calls, validation, history, other, ret >>

\* a collaborator call: whether it succeeded, and the policy written (backup, publish) or
\* the error code answered (fetch)
Call(op, ok, arg) == [op |-> op, ok |-> ok, arg |-> arg]

\* the second invocation has not started: no local variable of it is bound
OtherIdle ==
  [pc |-> "Start", local_config |-> Unset, remote_config |-> Unset, merged_config |-> Unset]

\* validate_lifecycle_config has not been called
NotValidated == Verdict("none", <<>>)

Init ==
  /\ pc = "Start"
  /\ file \in Files
  /\ bucket \in Buckets
  /\ local_config = Unset
  /\ remote_config = Unset
  /\ merged_config = Unset
  /\ updated_config = Unset
  /\ config_updated = "unset"
  /\ calls = <<>>
  /\ validation = NotValidated
  /\ history = <<>>
  /\ other = OtherIdle
  /\ ret = "none"

\* lines 382-387
Load ==
  /\ pc = "Start"
  /\ LET loaded == load_config_file(file)
     IN /\ calls' = Append(calls, Call("load", loaded.k # "raised", Unset))
        /\ IF loaded.k = "raised"
             THEN /\ pc' = "Failed"
                  /\ ret' = "False"
                  /\ UNCHANGED local_config
             ELSE /\ pc' = "LocalLoaded"
                  /\ local_config' = loaded
                  /\ UNCHANGED ret
  /\ validation' = validated_by_load(file)
  /\ UNCHANGED << file, bucket, remote_config, merged_config, updated_config, config_updated >>
  /\ UNCHANGED << history, other >>

\* lines 392-400
Fetch ==
  /\ pc = "LocalLoaded"
  /\ \E resp \in GetResponses(bucket) :
       LET fetched == get_current_lifecycle_config(resp)
       IN /\ calls' = Append(calls, Call("fetch", fetched.k # "raised", JStr(resp.code)))
          /\ IF fetched.k = "raised"
               THEN /\ pc' = "Failed"
                    /\ ret' = "False"
                    /\ UNCHANGED remote_config
               ELSE /\ pc' = "RemoteFetched"
                    /\ remote_config' = fetched
                    /\ UNCHANGED ret
  /\ UNCHANGED << validation, file, bucket, local_config, merged_config, updated_config, config_updated >>
  /\ UNCHANGED << history, other >>

\* the caller's local_config if lines 240 and 257 took no copies: merged_rules and
\* merged_config would be the caller's own objects, written by lines 250 and 258
local_after_merge_aliased(local, remote) ==
  IF Truthy(remote) /\ merge_lifecycle_configs(local, remote).k # "raised"
    THEN merge_lifecycle_configs(local, remote)
    ELSE local

\* the caller's local_config after the call: line 250 appends to the copy of line 240 and
\* line 258 assigns into the copy of line 257, so no write reaches the argument
local_after_merge(local, remote) == local

\* the caller's remote_config after the call: lines 234 and 246-254 only read it
remote_after_merge(local, remote) == remote

\* line 405: an exception of the merge is caught nowhere in apply_lifecycle_management
Merge ==
  /\ pc = "RemoteFetched"
  /\ LET merged == merge_lifecycle_configs(local_config, remote_config)
     IN IF merged.k = "raised"
          THEN /\ pc' = "Raised"
               /\ ret' = "raised"
               /\ UNCHANGED merged_config
          ELSE /\ pc' = "Merged"
               /\ merged_config' = merged
               /\ UNCHANGED ret
  /\ local_config' = local_after_merge(local_config, remote_config)
  /\ remote_config' = remote_after_merge(local_config, remote_config)
  /\ UNCHANGED << validation, file, bucket, updated_config, config_updated, calls >>
  /\ UNCHANGED << history, other >>

\* line 410 comparing the two dicts as they are, without normalize_config
UpToDate_raw(remote, merged) == remote = merged

\* line 410 never taking the up-to-date branch
UpToDate_never(remote, merged) == FALSE

\* the branch taken at line 410
UpToDate(remote, merged) == configs_equal(remote, merged)

\* lines 410-414
Compare ==
  /\ pc = "Merged"
  /\ IF UpToDate(remote_config, merged_config)
       THEN /\ pc' = "UpToDate"
            /\ config_updated' = "False"
       ELSE /\ pc' = "NeedsUpdate"
            /\ UNCHANGED config_updated
  /\ UNCHANGED << validation, file, bucket, local_config, remote_config, merged_config, updated_config,
                  calls, ret >>
  /\ UNCHANGED << history, other >>

\* line 428 written as `if remote_config is not None`
BackupWanted_not_none(remote) == remote.k # "null"

\* line 428: a backup is written when the fetched configuration is truthy
BackupWanted(remote) == Truthy(remote)

\* lines 434-435 returning False on a failed backup write
AfterBackup_fatal(ok) == IF ok THEN "Publishing" ELSE "Failed"

\* lines 434-435: a failed backup write is logged as a warning and the workflow goes on
AfterBackup(ok) == "Publishing"

\* lines 428-435
Backup ==
  /\ pc = "NeedsUpdate"
  /\ BackupWanted(remote_config)
  /\ \E ok \in BOOLEAN :
       /\ calls' = Append(calls, Call("backup", ok, remote_config))
       /\ pc' = AfterBackup(ok)
  /\ ret' = IF pc' = "Failed" THEN "False" ELSE ret
  /\ UNCHANGED << validation, file, bucket, local_config, remote_config, merged_config, updated_config,
                  config_updated >>
  /\ UNCHANGED << history, other >>

\* line 428, the configuration is falsy: nothing is written
NoBackup ==
  /\ pc = "NeedsUpdate"
  /\ ~BackupWanted(remote_config)
  /\ pc' = "Publishing"
  /\ UNCHANGED << validation, file, bucket, local_config, remote_config, merged_config, updated_config,
                  config_updated, calls, ret >>
  /\ UNCHANGED << history, other >>

\* lines 441-442
Publish ==
  /\ pc = "Publishing"
  /\ \E outcome \in PutOutcomes :
       /\ calls' = Append(calls, Call("publish", outcome = "ok", merged_config))
       /\ IF apply_lifecycle_config(outcome)
            THEN /\ pc' = "Published"
                 /\ UNCHANGED ret
            ELSE /\ pc' = "Failed"
                 /\ ret' = "False"
       /\ IF outcome = "ok"
            THEN bucket' \in Stored(merged_config)
            ELSE UNCHANGED bucket
  /\ UNCHANGED << validation, file, local_config, remote_config, merged_config, updated_config,
                  config_updated >>
  /\ UNCHANGED << history, other >>

\* line 456 taking the update as verified whatever was fetched
Verified_always(updated, merged) == TRUE

\* line 456 comparing the two dicts as they are, without normalize_config
Verified_raw(updated, merged) == updated = merged

\* the branch taken at line 456
Verified(updated, merged) == configs_equal(updated, merged)

\* lines 456-461 publishing again when the verification fails
AfterVerify_retry(equal) == IF equal THEN "Verified" ELSE "Publishing"

\* lines 456-461: a verified update goes on to the summary, a failed verification
\* returns False at once
AfterVerify(equal) == IF equal THEN "Verified" ELSE "Failed"

\* lines 446-464
Verify ==
  /\ pc = "Published"
  /\ \E resp \in GetResponses(bucket) :
       LET fetched == get_current_lifecycle_config(resp)
       IN /\ calls' = Append(calls, Call("fetch", fetched.k # "raised", JStr(resp.code)))
          /\ IF fetched.k = "raised"
               THEN /\ pc' = "Failed"
                    /\ ret' = "False"
                    /\ UNCHANGED << updated_config, config_updated >>
               ELSE /\ updated_config' = fetched
                    /\ pc' = AfterVerify(Verified(fetched, merged_config))
                    /\ IF Verified(fetched, merged_config)
                         THEN /\ config_updated' = "True"
                              /\ UNCHANGED ret
                         ELSE /\ ret' = IF pc' = "Failed" THEN "False" ELSE ret
                              /\ UNCHANGED config_updated
  /\ UNCHANGED << validation, file, bucket, local_config, remote_config, merged_config >>
  /\ UNCHANGED << history, other >>

\* lines 466-479
Summary ==
  /\ pc \in {"UpToDate", "Verified"}
  /\ pc' = "Success"
  /\ ret' = "True"
  /\ UNCHANGED << validation, file, bucket, local_config, remote_config, merged_config, updated_config,
                  config_updated, calls >>
  /\ UNCHANGED << history, other >>

Next ==
  \/ Load
  \/ Fetch
  \/ Merge
  \/ Compare
  \/ Backup
  \/ NoBackup
  \/ Publish
  \/ Verify
  \/ Summary

Spec == Init /\ [][Next]_vars

(***************************************************************************)
(* The program run again after an invocation that returned True: main()    *)
(* calls apply_lifecycle_management anew on the same file and the bucket   *)
(* as that invocation left it.                                             *)
(***************************************************************************)
\* lines 759-764: a new process, every local variable of the workflow unbound
NextInvocation ==
  /\ pc = "Success"
  /\ Len(history) < MaxRuns - 1
  /\ history' = Append(history, [calls |-> calls, ret |-> ret])
  /\ pc' = "Start"
  /\ local_config' = Unset
  /\ remote_config' = Unset
  /\ merged_config' = Unset
  /\ updated_config' = Unset
  /\ config_updated' = "unset"
  /\ calls' = <<>>
  /\ validation' = NotValidated
  /\ ret' = "none"
  /\ UNCHANGED << file, bucket, other >>

NextRepeat ==
  \/ Next
  \/ NextInvocation

SpecRepeat == Init /\ [][NextRepeat]_vars

(***************************************************************************)
(* Two invocations of apply_lifecycle_management at once on one bucket,    *)
(* each with a valid local file. The second one is the same code; its      *)
(* steps are cut where it reads or writes the bucket (lines 393, 441 and   *)
(* 448), what it does in between touching only its own variables.          *)
(***************************************************************************)
\* the local policies of the concurrent invocations: one rule each
ConcurrentLocals == {Policy(<<>>, <<r>>) : r \in LocalRuleSet}

\* the bucket the concurrent invocations start on: no configuration, or one rule
ConcurrentBuckets == {JNull} \cup {Policy(<<>>, <<r>>) : r \in RemoteRuleSet}

InitConcurrent ==
  /\ Init
  /\ file.state = "ok"
  /\ file.doc \in ConcurrentLocals
  /\ bucket \in ConcurrentBuckets

\* the second invocation with its position and local variables
Other(at, local, remote, merged) ==
  [pc |-> at, local_config |-> local, remote_config |-> remote, merged_config |-> merged]

\* lines 383-435 of the second invocation: load, fetch, merge, compare and backup
OtherFetch ==
  /\ other.pc = "Start"
  /\ \E doc \in ConcurrentLocals, resp \in GetResponses(bucket) :
       LET local == load_config_file([state |-> "ok", doc |-> doc])
           fetched == get_current_lifecycle_config(resp)
           merged == merge_lifecycle_configs(local, fetched)
       IN other' =
            IF local.k = "raised" THEN Other("Failed", Unset, Unset, Unset)
            ELSE IF fetched.k = "raised" THEN Other("Failed", local, Unset, Unset)
            ELSE IF merged.k = "raised" THEN Other("Raised", local, fetched, Unset)
            ELSE IF UpToDate(fetched, merged) THEN Other("Success", local, fetched, merged)
            ELSE Other("Publishing", local, fetched, merged)
  /\ UNCHANGED << pc, file, bucket, local_config, remote_config, merged_config,
                  updated_config, config_updated, calls, validation, history, ret >>

\* lines 441-442 of the second invocation
OtherPublish ==
  /\ other.pc = "Publishing"
  /\ \E outcome \in PutOutcomes :
       /\ other' = [other EXCEPT !.pc = IF apply_lifecycle_config(outcome)
                                           THEN "Published" ELSE "Failed"]
       /\ IF outcome = "ok"
            THEN bucket' \in Stored(other.merged_config)
            ELSE UNCHANGED bucket
  /\ UNCHANGED << pc, file, local_config, remote_config, merged_config, updated_config,
                  config_updated, calls, validation, history, ret >>

\* lines 446-479 of the second invocation
OtherVerify ==
  /\ other.pc = "Published"
  /\ \E resp \in GetResponses(bucket) :
       LET fetched == get_current_lifecycle_config(resp)
       IN other' = [other EXCEPT !.pc =
                      IF fetched.k = "raised" THEN "Failed"
                      ELSE IF AfterVerify(Verified(fetched, other.merged_config)) = "Verified"
                        THEN "Success"
                      ELSE AfterVerify(Verified(fetched, other.merged_config))]
  /\ UNCHANGED << pc, file, bucket, local_config, remote_config, merged_config,
                  updated_config, config_updated, calls, validation, history, ret >>

NextConcurrent ==
  \/ Next
  \/ OtherFetch
  \/ OtherPublish
  \/ OtherVerify

SpecConcurrent == InitConcurrent /\ [][NextConcurrent]_vars

TypeOK ==
  /\ pc \in {"Start", "LocalLoaded", "RemoteFetched", "Merged", "UpToDate", "NeedsUpdate",
             "Publishing", "Published", "Verified", "Success", "Failed", "Raised"}
  /\ ret \in {"none", "True", "False", "raised"}
  /\ config_updated \in {"unset", "True", "False"}

(***************************************************************************)
(* Properties.                                                             *)
(***************************************************************************)
\* the Rules sequence of a policy, empty when the policy has no Rules field
RulesOf(policy) ==
  IF policy.k = "dict" /\ HasKey(policy, "Rules") THEN DictGet(policy, "Rules").v ELSE <<>>

IDOf(rule) == DictGet(rule, "ID")

IDsOf(policy) == {IDOf(RulesOf(policy)[i]) : i \in DOMAIN RulesOf(policy)}

\* the positions of a Rules sequence that carry an ID
Positions(rules, id) == {i \in DOMAIN rules : IDOf(rules[i]) = id}

\* the merge of the invocation has run with a local policy document and a remote policy
\* that has rules
MergedNonEmpty ==
  /\ merged_config # Unset
  /\ local_config.k = "dict"
  /\ remote_config.k = "dict"
  /\ RulesOf(remote_config) # <<>>

\* C1: for a local policy L and a remote policy R with a non-empty Rules sequence, the
\* merged Rules sequence is L's rules in L's order, unchanged, followed by exactly the
\* rules of R whose ID is no rule ID of L, in R's order.
C1_MergeOrder ==
  MergedNonEmpty =>
    RulesOf(merged_config) =
      RulesOf(local_config)
        \o SelectSeq(RulesOf(remote_config), LAMBDA r : IDOf(r) \notin IDsOf(local_config))

\* C1 witness: a merge of a local rule with a remote rule of the same ID and a remote
\* rule of another ID
C1_Witness ==
  /\ MergedNonEmpty
  /\ RulesOf(local_config) # <<>>
  /\ \E i \in DOMAIN RulesOf(remote_config) :
       IDOf(RulesOf(remote_config)[i]) \in IDsOf(local_config)
  /\ \E i \in DOMAIN RulesOf(remote_config) :
       IDOf(RulesOf(remote_config)[i]) \notin IDsOf(local_config)

\* C2 as stated: a rule ID in both L and R is carried by exactly one merged rule, which
\* is L's rule with that ID.
C2_ExactlyOne ==
  MergedNonEmpty =>
    \A id \in IDsOf(local_config) \cap IDsOf(remote_config) :
      /\ Cardinality(Positions(RulesOf(merged_config), id)) = 1
      /\ \A i \in Positions(RulesOf(merged_config), id) :
           \E j \in Positions(RulesOf(local_config), id) :
             RulesOf(merged_config)[i] = RulesOf(local_config)[j]

\* C2 amended: a rule ID in both L and R is carried in the merge by exactly the rules of
\* L with that ID, at their positions in L and identical to them (one rule when L's IDs
\* are distinct); no rule of R with that ID is in the result.
C2_LocalWins ==
  MergedNonEmpty =>
    \A id \in IDsOf(local_config) \cap IDsOf(remote_config) :
      /\ Positions(RulesOf(merged_config), id) = Positions(RulesOf(local_config), id)
      /\ \A i \in Positions(RulesOf(merged_config), id) :
           RulesOf(merged_config)[i] = RulesOf(local_config)[i]

\* C2 witness: the remote rule of the shared ID differs from the local one
C2_Witness ==
  /\ MergedNonEmpty
  /\ \E i \in DOMAIN RulesOf(local_config), j \in DOMAIN RulesOf(remote_config) :
       /\ IDOf(RulesOf(local_config)[i]) = IDOf(RulesOf(remote_config)[j])
       /\ RulesOf(local_config)[i] # RulesOf(remote_config)[j]

\* the positions in the call log of the calls to one collaborator
CallsOf(op) == {i \in DOMAIN calls : calls[i].op = op}

\* the first fetch answered a policy that already equals the merge with the local one
Converged ==
  /\ remote_config # Unset
  /\ merge_lifecycle_configs(local_config, remote_config).k # "raised"
  /\ configs_equal(remote_config, merge_lifecycle_configs(local_config, remote_config))

\* C3: when the first-fetched remote policy R and the local policy L satisfy
\* equal(R, merge(L, R)), the invocation makes no publish call, no backup write and no
\* second fetch, and it goes on to Success with status UpToDate (it returns True).
C3_Idempotent ==
  Converged =>
    /\ CallsOf("publish") = {}
    /\ CallsOf("backup") = {}
    /\ Cardinality(CallsOf("fetch")) = 1
    /\ pc \in {"RemoteFetched", "Merged", "UpToDate", "Success"}
    /\ pc \in {"UpToDate", "Success"} => config_updated = "False"
    /\ pc = "Success" => ret = "True"
    /\ pc = "RemoteFetched" => ENABLED Merge
    /\ pc = "UpToDate" => ENABLED Summary

\* C3 witness: a converged invocation over a bucket that holds rules has ended
C3_Witness ==
  /\ Converged
  /\ pc = "Success"
  /\ RulesOf(remote_config) # <<>>
  /\ RulesOf(local_config) # <<>>

\* the policy the most recent fetch of the invocation returned
LastFetched == IF updated_config # Unset THEN updated_config ELSE remote_config

\* C4: an invocation that returns success has compared the policy of its most recent
\* fetch (the first fetch on the UpToDate path, the re-fetch after a publish) equal to
\* its merged policy under _configs_equal, and that policy is what the bucket holds.
C4_SuccessConverged ==
  pc = "Success" =>
    /\ ret = "True"
    /\ configs_equal(LastFetched, merged_config)
    /\ LastFetched = bucket
    /\ IF CallsOf("publish") = {}
         THEN updated_config = Unset /\ config_updated = "False"
         ELSE /\ updated_config # Unset
              /\ config_updated = "True"
              /\ calls[Len(calls)].op = "fetch"

\* C4 witness: success after a publish the provider stored with its own key order
C4_Witness ==
  /\ pc = "Success"
  /\ CallsOf("publish") # {}
  /\ updated_config # merged_config

\* C5 as stated: a backup of the first-fetched policy is written once, before the
\* publish, whenever publish is called and the fetched policy is non-null; none is
\* written when it is null or on the UpToDate path.
C5_BackupWhenNonNull ==
  /\ (CallsOf("publish") # {} /\ remote_config.k = "dict") =>
       \E i \in CallsOf("backup") :
         /\ CallsOf("backup") = {i}
         /\ calls[i].arg = remote_config
         /\ \A j \in CallsOf("publish") : i < j
  /\ (remote_config = JNull \/ config_updated = "False") => CallsOf("backup") = {}

\* C5 amended: a backup of the first-fetched policy is written once, before the publish,
\* whenever publish is called and the fetched policy is non-empty (neither null nor a
\* document without fields); none is written when it is null or without fields, or on
\* the UpToDate path.
C5_BackupWhenNonEmpty ==
  /\ (CallsOf("publish") # {} /\ Truthy(remote_config)) =>
       \E i \in CallsOf("backup") :
         /\ CallsOf("backup") = {i}
         /\ calls[i].arg = remote_config
         /\ \A j \in CallsOf("publish") : i < j
  /\ (remote_config = JNull \/ remote_config = JDict(<<>>) \/ config_updated = "False") =>
       CallsOf("backup") = {}

\* C5 witness: a publish over a bucket that held rules
C5_Witness ==
  /\ CallsOf("publish") # {}
  /\ RulesOf(remote_config) # <<>>
  /\ CallsOf("backup") # {}

Terminal == pc \in {"Success", "Failed", "Raised"}

\* the outcome the publish and re-fetch responses of the call log decide
PublishedAndVerified ==
  /\ \E i \in CallsOf("publish") : calls[i].ok
  /\ calls[Len(calls)].op = "fetch"
  /\ calls[Len(calls)].ok
  /\ configs_equal(updated_config, merged_config)

\* C6: a backup write, failed or not, is followed by the publish of the merged policy;
\* the workflow is never Failed before that publish, and its final outcome is decided by
\* the publish and re-fetch responses alone, the same for a failed as for a successful
\* backup write.
C6_BackupNonFatal ==
  \A i \in CallsOf("backup") :
    /\ pc = "Failed" => CallsOf("publish") # {}
    /\ Len(calls) = i => pc = "Publishing" /\ ENABLED Publish
    /\ Len(calls) > i => calls[i + 1].op = "publish" /\ calls[i + 1].arg = merged_config
    /\ Terminal => (pc = "Success" <=> PublishedAndVerified)
    /\ Terminal => (pc = "Failed" <=> ~PublishedAndVerified)

\* C6 witness: success after a failed backup write
C6_Witness ==
  /\ pc = "Success"
  /\ \E i \in CallsOf("backup") : ~calls[i].ok

\* C7: a failed publish call ends the invocation in Failed (it returns False); no
\* re-fetch and no other collaborator call follows it.
C7_PublishFatal ==
  \A i \in CallsOf("publish") :
    ~calls[i].ok =>
      /\ pc = "Failed"
      /\ ret = "False"
      /\ Len(calls) = i
      /\ updated_config = Unset
      /\ ~ENABLED Next

\* C7 witness: a publish has failed
C7_Witness == \E i \in CallsOf("publish") : ~calls[i].ok

\* C8: after a successful publish the remote policy is fetched again exactly once; the
\* invocation ends in Success, reporting the update, if and only if that fetch succeeds
\* and its policy equals the merged one under _configs_equal, and in Failed otherwise.
C8_Verification ==
  \A i \in CallsOf("publish") :
    calls[i].ok =>
      /\ pc \in {"Published", "Verified", "Success", "Failed"}
      /\ pc = "Published" => Len(calls) = i /\ ENABLED Verify
      /\ pc # "Published" =>
           /\ Len(calls) = i + 1
           /\ calls[i + 1].op = "fetch"
           /\ Cardinality(CallsOf("fetch")) = 2
           /\ pc \in {"Verified", "Success"} <=>
                (calls[i + 1].ok /\ configs_equal(updated_config, merged_config))
           /\ pc = "Failed" <=>
                (~calls[i + 1].ok \/ ~configs_equal(updated_config, merged_config))
      /\ pc = "Verified" => config_updated = "True" /\ ENABLED Summary
      /\ pc = "Success" => config_updated = "True" /\ ret = "True"
      /\ pc = "Failed" => ret = "False"

\* C8 witness: the re-fetch returned the merged policy with its keys in another order
C8_Witness ==
  /\ pc = "Success"
  /\ \E i \in CallsOf("publish") : calls[i].ok
  /\ json_dumps(updated_config, FALSE) # json_dumps(merged_config, FALSE)

\* the load of the local file fails
LoadFails ==
  \/ file.state \in {"missing", "malformed"}
  \/ validate_lifecycle_config(file.doc).ret # "True"

\* C9: when the load of the local policy fails (file missing, malformed document,
\* validation failure) the invocation ends in Failed with the load as its only
\* collaborator call: no fetch, no backup write, no publish.
C9_LoadFailureStops ==
  (pc # "Start" /\ LoadFails) =>
    /\ pc = "Failed"
    /\ ret = "False"
    /\ Len(calls) = 1
    /\ calls[1].op = "load"
    /\ local_config = Unset
    /\ ~ENABLED Next

\* C9 witness: a file whose document the validator rejects has been loaded
C9_Witness ==
  /\ pc # "Start"
  /\ file.state = "ok"
  /\ validate_lifecycle_config(file.doc).ret = "False"

\* C10: a 'no lifecycle configuration' answer to the first fetch gives the null policy
\* and the workflow goes on to the merge; any other error of the first fetch ends the
\* invocation in Failed with no backup write and no publish call.
C10_FetchOutcomes ==
  (Len(calls) >= 2 /\ calls[2].op = "fetch") =>
    /\ calls[2].arg = JStr("NoSuchLifecycleConfiguration") =>
         /\ calls[2].ok
         /\ remote_config = JNull
         /\ pc # "Raised"
         /\ pc = "RemoteFetched" => Len(calls) = 2 /\ ENABLED Merge
         /\ pc # "RemoteFetched" => merged_config = local_config
         /\ pc = "Failed" => CallsOf("publish") # {}
    /\ calls[2].arg \notin {JStr("NoSuchLifecycleConfiguration"), JStr("")} =>
         /\ ~calls[2].ok
         /\ pc = "Failed"
         /\ ret = "False"
         /\ Len(calls) = 2
         /\ remote_config = Unset
         /\ ~ENABLED Next

\* C10 witness: the bucket had no lifecycle configuration and the local policy was merged
C10_Witness ==
  /\ Len(calls) >= 2
  /\ calls[2].arg = JStr("NoSuchLifecycleConfiguration")
  /\ merged_config # Unset
  /\ RulesOf(merged_config) # <<>>

\* the merge of the invocation has run with a local policy document and a remote that is
\* null or has no rules
MergedNoRemoteRules ==
  /\ merged_config # Unset
  /\ local_config.k = "dict"
  /\ RulesOf(remote_config) = <<>>

\* C11 as stated: for every local policy L, the merge with a remote that is null or whose
\* Rules sequence is empty or absent equals L under _configs_equal.
C11_NoRemoteIdentity ==
  MergedNoRemoteRules => configs_equal(merged_config, local_config)

\* C11 amended: the merge with a null or field-less remote is L itself; the merge with a
\* remote that has fields and an empty or absent Rules sequence equals L under
\* _configs_equal when L has a Rules field, and is L with an empty Rules sequence added
\* when L has none.
C11_NoRemoteIdentityWithRules ==
  MergedNoRemoteRules =>
    /\ ~Truthy(remote_config) => merged_config = local_config
    /\ HasKey(local_config, "Rules") => configs_equal(merged_config, local_config)
    /\ (Truthy(remote_config) /\ ~HasKey(local_config, "Rules")) =>
         merged_config = JDict(Append(local_config.v, P("Rules", JList(<<>>))))

\* C11 witness: a local policy with rules merged with a remote that has a field and no
\* Rules field
C11_Witness ==
  /\ MergedNoRemoteRules
  /\ RulesOf(local_config) # <<>>
  /\ Truthy(remote_config)
  /\ ~HasKey(remote_config, "Rules")

\* the validity the specification defines for a non-null policy: a Rules field that is
\* a sequence of records, each with an ID and a Status that is 'Enabled' or 'Disabled'
WellFormed(policy) ==
  /\ HasKey(policy, "Rules")
  /\ DictGet(policy, "Rules").k = "list"
  /\ \A i \in DOMAIN RulesOf(policy) :
       LET rule == RulesOf(policy)[i]
       IN /\ rule.k = "dict"
          /\ HasKey(rule, "ID")
          /\ HasKey(rule, "Status")
          /\ DictGet(rule, "Status") \in {JStr("Enabled"), JStr("Disabled")}

\* the validator has been called on the document of the local file
Validated == validation # NotValidated

\* C12 as stated: the validator accepts the null policy, and accepts a non-null policy
\* if and only if it is well-formed; so every policy with no Rules field is rejected.
C12_AcceptsIffWellFormed ==
  Validated =>
    /\ file.doc = JNull => validation.ret = "True"
    /\ file.doc.k = "dict" => (validation.ret = "True" <=> WellFormed(file.doc))
    /\ (file.doc.k = "dict" /\ ~HasKey(file.doc, "Rules")) => validation.ret = "False"

\* C12 amended: the validator accepts the null policy and the policy with no fields, and
\* accepts a policy with at least one field if and only if it is well-formed; so every
\* policy that has fields and no Rules field is rejected, and a policy with an empty
\* Rules sequence is accepted.
C12_AcceptsEmptyOrWellFormed ==
  Validated =>
    /\ file.doc \in {JNull, JDict(<<>>)} => validation.ret = "True"
    /\ (file.doc.k = "dict" /\ file.doc.v # <<>>) =>
         (validation.ret = "True" <=> WellFormed(file.doc))
    /\ (file.doc.k = "dict" /\ file.doc.v # <<>> /\ ~HasKey(file.doc, "Rules")) =>
         validation.ret = "False"
    /\ file.doc = JDict(<<P("Rules", JList(<<>>))>>) => validation.ret = "True"

\* C12 witness: a policy whose only flaw is the Status value of a rule has been rejected
C12_Witness ==
  /\ Validated
  /\ validation.ret = "False"
  /\ file.doc.k = "dict"
  /\ HasKey(file.doc, "Rules")
  /\ \E i \in DOMAIN RulesOf(file.doc) :
       /\ RulesOf(file.doc)[i].k = "dict"
       /\ HasKey(RulesOf(file.doc)[i], "ID")
       /\ HasKey(RulesOf(file.doc)[i], "Status")
       /\ DictGet(RulesOf(file.doc)[i], "Status") = JStr("Invalid")

\* line 410 has compared the fetched policy with the merged one
ComparedFirst == merged_config # Unset /\ pc # "Merged"

\* line 410 found the two equal
FoundUpToDate == config_updated = "False"

\* remote_config and merged_config are policy documents (null or a record), exactly one
\* of them null
ExactlyOneNull ==
  \/ remote_config = JNull /\ merged_config.k = "dict"
  \/ remote_config.k = "dict" /\ merged_config = JNull

\* the one of remote_config and merged_config that is not null, under ExactlyOneNull
NonNullSide == IF remote_config = JNull THEN merged_config ELSE remote_config

\* C13 as stated: _configs_equal is true of two null policies and false whenever exactly
\* one side is null, whatever policy document is on the other side.
C13_NullDistinct ==
  ComparedFirst =>
    /\ (remote_config = JNull /\ merged_config = JNull) => FoundUpToDate
    /\ ExactlyOneNull => ~FoundUpToDate

\* C13 amended: _configs_equal is true of two null policies, false when exactly one side
\* is null and the other is a document with at least one field (an empty Rules sequence
\* included), and true when one side is null and the other is the document with no
\* fields.
C13_NullEqualsEmpty ==
  ComparedFirst =>
    /\ (remote_config = JNull /\ merged_config = JNull) => FoundUpToDate
    /\ ExactlyOneNull => (FoundUpToDate <=> NonNullSide.v = <<>>)

\* C13 witness: a null remote has been compared with a merged policy whose Rules sequence
\* is empty
C13_Witness ==
  /\ ComparedFirst
  /\ remote_config = JNull
  /\ merged_config = JDict(<<P("Rules", JList(<<>>))>>)
  /\ ~FoundUpToDate

\* the keys of a record
KeysOf(d) == {d.v[i].key : i \in DOMAIN d.v}

\* two documents have the same fields with the same values at every nesting level: the
\* order of the keys of a record is irrelevant, the order of a sequence is significant
RECURSIVE SameValue(_, _)
SameValue(a, b) ==
  /\ a.k = b.k
  /\ CASE a.k = "dict" ->
            /\ Len(a.v) = Len(b.v)
            /\ KeysOf(a) = KeysOf(b)
            /\ \A key \in KeysOf(a) : SameValue(DictGet(a, key), DictGet(b, key))
       [] a.k = "list" ->
            /\ Len(a.v) = Len(b.v)
            /\ \A i \in DOMAIN a.v : SameValue(a.v[i], b.v[i])
       [] OTHER -> a = b

\* line 456 has compared the policy fetched after the publish with the merged one
ComparedAgain == updated_config # Unset

\* line 456 found the two equal
FoundVerified == config_updated = "True"

\* C14: on two non-null policies _configs_equal is true if and only if they have the
\* same fields with the same values at every nesting level, the order of object keys
\* being irrelevant and the order of sequence elements significant; this holds of the
\* comparison of the fetched policy with the merged one and of the comparison of the
\* policy fetched after the publish with the merged one.
C14_EqualIffSameValue ==
  /\ (ComparedFirst /\ remote_config.k = "dict" /\ merged_config.k = "dict") =>
       (FoundUpToDate <=> SameValue(remote_config, merged_config))
  /\ (ComparedAgain /\ updated_config.k = "dict" /\ merged_config.k = "dict") =>
       (FoundVerified <=> SameValue(updated_config, merged_config))

\* C14 witness: the policy fetched after the publish is a key permutation of the merged
\* one, with rules in it, and was found equal
C14_Witness ==
  /\ ComparedAgain
  /\ FoundVerified
  /\ updated_config # merged_config
  /\ KeysOf(updated_config) = KeysOf(merged_config)
  /\ RulesOf(merged_config) # <<>>

\* the top-level fields of a policy other than Rules
TemplateKeys(policy) == KeysOf(policy) \ {"Rules"}

\* the merge of the invocation has run with a local policy document and a non-empty
\* remote policy
MergedWithRemote ==
  /\ merged_config # Unset
  /\ local_config.k = "dict"
  /\ Truthy(remote_config)

\* C15: for a local policy L and a non-empty remote policy R, every top-level field of
\* the merge other than Rules is a field of L with L's value, every non-Rules field of L
\* is in the merge, and no non-Rules field of R is in the merge unless L has it.
C15_TemplateFields ==
  MergedWithRemote =>
    /\ \A key \in TemplateKeys(merged_config) :
         /\ key \in TemplateKeys(local_config)
         /\ DictGet(merged_config, key) = DictGet(local_config, key)
    /\ TemplateKeys(local_config) \subseteq TemplateKeys(merged_config)
    /\ \A key \in TemplateKeys(remote_config) :
         key \in KeysOf(merged_config) => key \in KeysOf(local_config)

\* C15 witness: the local and the remote policy carry the same top-level field with
\* different values, and the remote policy has rules
C15_Witness ==
  /\ MergedWithRemote
  /\ RulesOf(remote_config) # <<>>
  /\ \E key \in TemplateKeys(local_config) \cap TemplateKeys(remote_config) :
       DictGet(local_config, key) # DictGet(remote_config, key)

\* C16: every invocation on a local document the loader accepts ends in exactly one of
\* Success and Failed, reported by the value apply_lifecycle_management returns: no
\* exception leaves the workflow, and the value returned is True exactly in Success and
\* False exactly in Failed.
C16_EndsSuccessOrFailed ==
  /\ pc # "Raised"
  /\ ret # "raised"
  /\ ret = "True" <=> pc = "Success"
  /\ ret = "False" <=> pc = "Failed"

\* the verification of line 456 has failed: the policy was published and fetched again,
\* and the fetched policy is not equal to the merged one
VerificationFailed ==
  /\ ComparedAgain
  /\ ~FoundVerified

\* C17: in one invocation the local load is called at most once, the fetch at most twice
\* (the second one after the publish), the backup write at most once and the publish at
\* most once; after a failed verification the invocation has ended in Failed with no
\* further call, the bucket holding what the one publish stored.
C17_NoRetryNoRollback ==
  /\ Cardinality(CallsOf("load")) <= 1
  /\ Cardinality(CallsOf("fetch")) <= 2
  /\ Cardinality(CallsOf("backup")) <= 1
  /\ Cardinality(CallsOf("publish")) <= 1
  /\ \A i \in CallsOf("fetch") : i > 2 => \E j \in CallsOf("publish") : j < i /\ calls[j].ok
  /\ \A i \in CallsOf("publish") : ~calls[i].ok => i = Len(calls) /\ pc = "Failed"
  /\ VerificationFailed =>
       /\ pc = "Failed"
       /\ ret = "False"
       /\ calls[Len(calls)].op = "fetch"
       /\ calls[Len(calls) - 1] = Call("publish", TRUE, merged_config)
       /\ bucket \in Stored(merged_config)
       /\ ~ENABLED Next

\* C17 witness: the verification failed after a backup and a publish, and the bucket holds
\* neither the policy it held before nor the merged policy as sent
C17_Witness ==
  /\ VerificationFailed
  /\ Cardinality(CallsOf("backup")) = 1
  /\ Cardinality(CallsOf("fetch")) = 2
  /\ bucket # remote_config
  /\ bucket # merged_config

Violation(rule) ==
  IF rule.k # "dict" THEN "not a record"
  ELSE IF ~HasKey(rule, "ID") THEN "missing ID"
  ELSE IF ~HasKey(rule, "Status") THEN "missing Status"
  ELSE IF DictGet(rule, "Status") \notin {JStr("Enabled"), JStr("Disabled")}
    THEN "invalid Status"
  ELSE "none"

\* the diagnostic text of each of the four rejection reasons of the specification
ReasonText ==
  [r \in {"missing Rules", "missing ID", "missing Status", "invalid Status"} |->
     CASE r = "missing Rules" -> "Lifecycle configuration must have 'Rules' array"
       [] r = "missing ID" -> "missing required 'ID' field"
       [] r = "missing Status" -> "missing required 'Status' field"
       [] r = "invalid Status" -> "has invalid Status"]

\* the positions of the rules of a policy that violate a constraint
Violating(policy) ==
  {i \in DOMAIN RulesOf(policy) : Violation(RulesOf(policy)[i]) # "none"}

\* C19: when the validator returns false it has emitted exactly one error diagnostic,
\* which names the violated constraint and, for a violation of a rule, the index of the
\* lowest-index violating rule; when it returns true it has emitted none; the
\* diagnostics of the four rejection reasons are pairwise distinct.
C19_OneDiagnostic ==
  Validated =>
    /\ validation.ret = "True" => validation.errors = <<>>
    /\ validation.ret = "False" =>
         /\ Len(validation.errors) = 1
         /\ (file.doc.k = "dict" /\ ~HasKey(file.doc, "Rules")) =>
              validation.errors[1] = Diag(ReasonText["missing Rules"], 0)
         /\ (file.doc.k = "dict" /\ HasKey(file.doc, "Rules")
               /\ DictGet(file.doc, "Rules").k = "list") =>
              /\ Violating(file.doc) # {}
              /\ \A i \in Violating(file.doc) : validation.errors[1].index <= i
              /\ validation.errors[1].index \in Violating(file.doc)
              /\ LET reason == Violation(RulesOf(file.doc)[validation.errors[1].index])
                 IN reason \in DOMAIN ReasonText =>
                      validation.errors[1].msg = ReasonText[reason]
    /\ \A r1, r2 \in DOMAIN ReasonText : ReasonText[r1] = ReasonText[r2] => r1 = r2

\* C19 witness: a policy with two rules that violate different constraints has been
\* rejected
C19_Witness ==
  /\ Validated
  /\ validation.ret = "False"
  /\ Cardinality(Violating(file.doc)) = 2
  /\ \E i, j \in Violating(file.doc) :
       Violation(RulesOf(file.doc)[i]) # Violation(RulesOf(file.doc)[j])

\* C20: for every parseable document (null, number, string, sequence or record, with
\* rules of any shape) the validator returns a boolean: no exception leaves it.
C20_NeverRaises ==
  Validated => validation.ret \in {"True", "False"}

\* C23: for a local policy L and a remote policy R, null or not, whose rules all carry
\* an ID, merging L with the merge of L and R returns without an exception a policy
\* equal under _configs_equal to the merge of L and R.
C23_MergeIdempotent ==
  merged_config # Unset =>
    /\ merge_lifecycle_configs(local_config, merged_config).k # "raised"
    /\ configs_equal(merge_lifecycle_configs(local_config, merged_config), merged_config)

\* C23 witness: the merge holds two local rules, a remote rule under the ID of a local
\* one was dropped and a remote rule under another ID was appended
C23_Witness ==
  /\ merged_config # Unset
  /\ Len(RulesOf(local_config)) = 2
  /\ Len(RulesOf(merged_config)) = 3
  /\ Len(RulesOf(remote_config)) = 2
  /\ merged_config # local_config
  /\ merged_config # remote_config

\* the rule IDs of a policy are pairwise distinct
DistinctIDs(policy) ==
  \A i, j \in DOMAIN RulesOf(policy) :
    IDOf(RulesOf(policy)[i]) = IDOf(RulesOf(policy)[j]) => i = j

\* the merge of the invocation has run with a local policy document and a remote policy,
\* null or not, each with pairwise distinct rule IDs
MergedDistinct ==
  /\ merged_config # Unset
  /\ local_config.k = "dict"
  /\ DistinctIDs(local_config)
  /\ DistinctIDs(remote_config)

\* C24: if the rule IDs are pairwise distinct within L and within R, they are pairwise
\* distinct within the merge of L and R, and the rule IDs of the merge are those of L
\* together with those of R.
C24_UniqueIDs ==
  MergedDistinct =>
    /\ DistinctIDs(merged_config)
    /\ IDsOf(merged_config) = IDsOf(local_config) \cup IDsOf(remote_config)

\* C24 witness: L and R have two rules each, one ID in common
C24_Witness ==
  /\ MergedDistinct
  /\ Len(RulesOf(local_config)) = 2
  /\ Len(RulesOf(remote_config)) = 2
  /\ Cardinality(IDsOf(local_config) \cap IDsOf(remote_config)) = 1
  /\ Cardinality(IDsOf(merged_config)) = 3

\* the invocation before this one ended in Success
PreviousSucceeded ==
  /\ history # <<>>
  /\ history[Len(history)].ret = "True"

\* C21: after an invocation that ended in Success, the next invocation with the same
\* local file, on the bucket as it was left, makes no publish call and no backup write
\* and, once its fetch has returned the policy of the bucket, finds the policy up to
\* date and ends in Success.
C21_Convergence ==
  PreviousSucceeded =>
    /\ CallsOf("publish") = {}
    /\ CallsOf("backup") = {}
    /\ pc \in {"Start", "LocalLoaded", "RemoteFetched", "Merged", "UpToDate", "Success",
                "Failed"}
    /\ pc = "Failed" => (local_config # Unset /\ remote_config = Unset)
    /\ pc = "Merged" => UpToDate(remote_config, merged_config)
    /\ pc = "UpToDate" => ENABLED Summary
    /\ pc = "Success" => (config_updated = "False" /\ ret = "True")

\* C21 witness: the invocation before this one published a policy with rules, and this
\* one ended in Success
C21_Witness ==
  /\ PreviousSucceeded
  /\ pc = "Success"
  /\ RulesOf(bucket) # <<>>
  /\ \E i \in DOMAIN history[Len(history)].calls :
       /\ history[Len(history)].calls[i].op = "publish"
       /\ history[Len(history)].calls[i].ok

\* the step leaves the bucket as it was or leaves in it exactly the policy an invocation
\* sent: the storage returns the last published policy
StoredAsSent == bucket' \in {bucket, merged_config, other.merged_config}

\* C22: with invocations running at once on one bucket, each with a valid local policy
\* and the storage returning exactly the last published policy, every rule ID of the
\* remote policy is still a rule ID of the remote policy after every step.
C22_RemoteIDsKept ==
  [][StoredAsSent => IDsOf(bucket) \subseteq IDsOf(bucket')]_vars

====
